---- MODULE Spec2Model ----
(***************************************************************************)
(* The two localization scripts of the repository:                         *)
(*   scripts/extract_missing_translations.py  (the extractor)              *)
(*   scripts/import_translations.py           (the importer)               *)
(* modelled as processes that read and write three files: the catalog      *)
(* (Localizable.xcstrings), the translations input (translated_items.json) *)
(* and the missing-translations report (missing_translations.json).        *)
(*                                                                         *)
(* A JSON value is a tagged record:                                        *)
(*   [t |-> "null"]                 null                                   *)
(*   [t |-> "str", s |-> "..."]     a string                               *)
(*   [t |-> "obj", f |-> fn]        an object, fn a function from its keys *)
(*                                  to JSON values                         *)
(* A file holds a JSON value v when its text is the text json.dump writes  *)
(* for v, and [t |-> "raw", text |-> "..."] for any other text. A save     *)
(* reaches the file as open(path, 'w') and the writes of the file object.  *)
(* A Python exception is the outcome "fault" of the step that raises it.   *)
(***************************************************************************)
EXTENDS Naturals, Sequences, FiniteSets, TLC

\* ------------------------------------------------------------------ JSON

JNull == [t |-> "null"]
JStr(s) == [t |-> "str", s |-> s]
JObj(f) == [t |-> "obj", f |-> f]
EmptyObj == JObj(<<>>)

\* A file that does not exist (os.path.exists is False).
ABSENT == [t |-> "absent"]

\* isinstance(v, dict)
IsDict(v) == v.t = "obj"

\* Python truth value of a JSON value: None, "" and {} are false.
Truthy(v) ==
  CASE v.t = "null" -> FALSE
    [] v.t = "str" -> v.s # ""
    [] v.t = "obj" -> DOMAIN v.f # {}
    [] OTHER -> FALSE

\* k in d, for a dict d
DictHas(d, k) == k \in DOMAIN d.f

\* d.get(k, default), for a dict d
DictGet(d, k, default) == IF k \in DOMAIN d.f THEN d.f[k] ELSE default

\* d[k] = v, for a dict d (the other keys are kept)
DictSet(d, k, v) ==
  JObj([x \in (DOMAIN d.f) \cup {k} |-> IF x = k THEN v ELSE d.f[x]])

\* k in s, for two Python strings: k occurs in s.
IsSubstring(k, s) ==
  \E i \in 1..(Len(s) + 1) :
    i + Len(k) - 1 <= Len(s) /\ SubSeq(s, i, i + Len(k) - 1) = k

\* key in v, for a string key and a loaded value v: membership for a dict,
\* the substring test for a str, a TypeError for None.
KeyIn(key, v) ==
  CASE v.t = "obj" -> [raises |-> FALSE, holds |-> DictHas(v, key)]
    [] v.t = "str" -> [raises |-> FALSE, holds |-> IsSubstring(key, v.s)]
    [] OTHER -> [raises |-> TRUE, holds |-> FALSE]

\* ----------------------------------------------------------------- text

QUOTE == "\""

\* Stands for the zero byte, which fills a file between its end and the
\* position of a write beyond it.
NUL == "\f"

\* n copies of s, one after the other.
RECURSIVE Repeat(_, _)
Repeat(s, n) ==
  IF n = 0 THEN ""
  ELSE IF n = 1 THEN s
  ELSE LET h == Repeat(s, n \div 2)
       IN IF n % 2 = 0 THEN h \o h ELSE h \o h \o s

\* The concatenation of the strings lo..hi of a sequence, and of all of them.
RECURSIVE JoinRange(_, _, _)
JoinRange(ss, lo, hi) ==
  IF lo > hi THEN ""
  ELSE IF lo = hi THEN ss[lo]
  ELSE LET mid == (lo + hi) \div 2
       IN JoinRange(ss, lo, mid) \o JoinRange(ss, mid + 1, hi)
Join(ss) == JoinRange(ss, 1, Len(ss))

\* A dict keeps its keys in insertion order. The keys of the documents
\* considered stand in this order in their files, and the scripts keep it:
\* the importer appends "localizations" to an entry and "zh-Hans" to a
\* localizations object, and writes "state" before "value"; the extractor
\* writes "source" before "comment".
KeyOrder ==
  << "sourceLanguage", "strings", "version", "Old", "Hello", "Pad", "Bye",
     "source", "comment", "localizations", "en", "zh-Hans", "stringUnit",
     "state", "value" >>

RECURSIVE SetToSeq(_)
SetToSeq(S) ==
  IF S = {} THEN <<>>
  ELSE LET x == CHOOSE y \in S : TRUE IN <<x>> \o SetToSeq(S \ {x})

\* The keys of f in the order of iteration: the keys of KeyOrder in that
\* order, any other key after them.
OrderedKeys(f) ==
  SelectSeq(KeyOrder, LAMBDA k : k \in DOMAIN f)
    \o SetToSeq(DOMAIN f \ { KeyOrder[i] : i \in DOMAIN KeyOrder })

\* json.encoder.encode_basestring: the strings considered hold no character
\* that is escaped.
EncodeStr(x) == QUOTE \o x \o QUOTE

Indent(d) == Repeat("  ", d)

\* The strings JSONEncoder(ensure_ascii=False, indent=2).iterencode(v) yields
\* for v at nesting depth d; json.dump passes them to f.write one by one.
RECURSIVE Chunks(_, _), MemberChunks(_, _, _, _)
Chunks(v, d) ==
  CASE v.t = "null" -> << "null" >>
    [] v.t = "str" -> << EncodeStr(v.s) >>
    [] OTHER ->
         IF DOMAIN v.f = {} THEN << "{}" >>
         ELSE << "{", "\n" \o Indent(d + 1) >>
                \o MemberChunks(v.f, OrderedKeys(v.f), 1, d + 1)
                \o << "\n" \o Indent(d), "}" >>
MemberChunks(f, keys, i, d) ==
  IF i > Len(keys) THEN <<>>
  ELSE (IF i = 1 THEN <<>> ELSE << ",\n" \o Indent(d) >>)
         \o << EncodeStr(keys[i]), ": " >>
         \o Chunks(f[keys[i]], d)
         \o MemberChunks(f, keys, i + 1, d)

\* The text json.dump(v, f, ensure_ascii=False, indent=2) writes.
Text(v) == Join(Chunks(v, 0))

\* The number of characters of that text (the strings considered are ASCII,
\* so characters are bytes).
JsonSize(v) == Len(Text(v))

\* ------------------------------------------------------------- json.load

Whitespace == {" ", "\n", "\r", "\t"}

CharAt(s, i) == IF i >= 1 /\ i <= Len(s) THEN SubSeq(s, i, i) ELSE ""

\* The element of a set of one element: The({ e : x \in {v} }) is e for the
\* value v of x, as a local variable x of a program.
The(S) == CHOOSE x \in S : TRUE

\* a when it is a position, else b.
OrElse(a, b) == IF a # 0 THEN a ELSE b

\* The first position in lo..hi of s that holds a character of cs (in) or
\* a character not of cs (~in), or 0. A long stretch of one repeated
\* character is decided by its first character.
RECURSIVE FirstOf(_, _, _, _, _)
FirstOf(s, cs, in, lo, hi) ==
  IF lo > hi THEN 0
  ELSE IF lo = hi \/ (hi - lo >= 63
                      /\ SubSeq(s, lo, hi) = Repeat(CharAt(s, lo), hi - lo + 1))
  THEN (IF (CharAt(s, lo) \in cs) = in THEN lo ELSE 0)
  ELSE OrElse(FirstOf(s, cs, in, lo, (lo + hi) \div 2),
              FirstOf(s, cs, in, (lo + hi) \div 2 + 1, hi))

\* The same from lo to the end of s, searched in stretches of width, twice
\* width, ... characters.
RECURSIVE FirstFrom(_, _, _, _, _)
FirstFrom(s, cs, in, lo, width) ==
  IF lo > Len(s) THEN 0
  ELSE OrElse(FirstOf(s, cs, in, lo,
                      IF lo + width - 1 < Len(s) THEN lo + width - 1 ELSE Len(s)),
              FirstFrom(s, cs, in, lo + width, 2 * width))

\* The first position from i on that holds no whitespace, Len(s) + 1 when
\* there is none.
SkipWhitespace(s, i) ==
  OrElse(FirstFrom(s, Whitespace, FALSE, i, 1),
         IF i > Len(s) THEN i ELSE Len(s) + 1)

NoValue == [ok |-> FALSE, v |-> JNull, next |-> 0]

\* The string that opens at position i of s: it ends at the next quote; a
\* control character before it is an error (no text considered holds a
\* backslash, which is taken as an error too).
ScanString(s, i) ==
  The({ IF e = 0 \/ CharAt(s, e) # QUOTE THEN NoValue
        ELSE [ok |-> TRUE, v |-> JStr(SubSeq(s, i + 1, e - 1)), next |-> e + 1]
        : e \in { FirstFrom(s, {QUOTE, "\\", "\n", "\r", "\t", NUL}, TRUE,
                            i + 1, 4) } })

\* The JSON value that starts at position i of s: an object, a string or
\* null (the documents considered hold no number, boolean or array, and no
\* text made of parts of their texts holds a complete one).
RECURSIVE ParseValue(_, _), ParseMembers(_, _, _)
ParseValue(s, i) ==
  CASE CharAt(s, i) = QUOTE -> ScanString(s, i)
    [] CharAt(s, i) = "{" ->
         The({ IF CharAt(s, j) = "}"
               THEN [ok |-> TRUE, v |-> EmptyObj, next |-> j + 1]
               ELSE ParseMembers(s, j, <<>>)
               : j \in { SkipWhitespace(s, i + 1) } })
    [] i + 3 <= Len(s) /\ SubSeq(s, i, i + 3) = "null" ->
         [ok |-> TRUE, v |-> JNull, next |-> i + 4]
    [] OTHER -> NoValue
\* The members of an object from position i, where a key is due, to the
\* closing brace; f holds the members read so far (a repeated key keeps its
\* last value).
ParseMembers(s, i, f) ==
  IF CharAt(s, i) # QUOTE THEN NoValue
  ELSE The({
    IF ~k.ok THEN NoValue
    ELSE The({
      IF CharAt(s, c) # ":" THEN NoValue
      ELSE The({
        IF ~x.ok THEN NoValue
        ELSE The({
          IF CharAt(s, e) = "}"
          THEN [ok |-> TRUE, v |-> JObj(g), next |-> e + 1]
          ELSE IF CharAt(s, e) = ","
          THEN ParseMembers(s, SkipWhitespace(s, e + 1), g)
          ELSE NoValue
          : e \in { SkipWhitespace(s, x.next) },
            g \in { [y \in (DOMAIN f) \cup {k.v.s} |->
                       IF y = k.v.s THEN x.v ELSE f[y]] } })
        : x \in { ParseValue(s, SkipWhitespace(s, c + 1)) } })
      : c \in { SkipWhitespace(s, k.next) } })
    : k \in { ScanString(s, i) } })

\* json.loads(s): one value with whitespace around it, or a JSONDecodeError.
Parse(s) ==
  The({ IF r.ok /\ SkipWhitespace(s, r.next) = Len(s) + 1
        THEN [ok |-> TRUE, doc |-> r.v]
        ELSE [ok |-> FALSE, doc |-> JNull]
        : r \in { ParseValue(s, SkipWhitespace(s, 1)) } })

\* ---------------------------------------------------------------- files

\* The content of a file is a JSON value v when the file holds exactly
\* Text(v), and Raw(text) for any other text.
Raw(text) == [t |-> "raw", text |-> text]

\* A file that open(path, 'w') has created or truncated.
EmptyFile == Raw("")

TextOf(file) ==
  CASE file.t = "absent" -> ""
    [] file.t = "raw" -> file.text
    [] OTHER -> Text(file)

\* The number of characters of a file.
FileSize(file) == Len(TextOf(file))

\* with open(path, 'r') as f: json.load(f) on a file that exists.
Load(file) ==
  CASE file.t = "absent" -> [ok |-> FALSE, doc |-> JNull]
    [] file.t = "raw" -> Parse(file.text)
    [] OTHER -> [ok |-> TRUE, doc |-> file]

\* The content that is the text: doc or the value the text is written from,
\* when the text is its text.
Content(text, doc) ==
  IF text = Text(doc) THEN doc
  ELSE The({ IF r.ok /\ Text(r.doc) = text THEN r.doc ELSE Raw(text)
             : r \in { Parse(text) } })

\* os.write of the characters b at position pos of a file whose text is
\* text: b replaces what is there, zero bytes fill the file up to pos.
PutAt(text, pos, b) ==
  LET padded == IF Len(text) < pos
                THEN text \o Repeat(NUL, pos - Len(text)) ELSE text
  IN SubSeq(padded, 1, pos) \o b
       \o SubSeq(padded, pos + Len(b) + 1, Len(padded))

\* The file after the write of b at pos by a process that writes doc.
WriteAt(file, pos, b, doc) == Content(PutAt(TextOf(file), pos, b), doc)

\* --------------------------------------------------- the file object f

\* TextIOWrapper._CHUNK_SIZE: the text f.write collects before it passes it on.
CHUNK_SIZE == 8192
\* The buffer of the BufferedWriter behind f: open() takes st_blksize of the
\* file.
BUFFER_SIZE == 4096

\* The first j in lo..hi for which the strings a..j of chunks have
\* CHUNK_SIZE characters or more together, or 0.
RECURSIVE FirstFull(_, _, _, _)
FirstFull(chunks, a, lo, hi) ==
  IF lo > hi \/ Len(JoinRange(chunks, a, hi)) < CHUNK_SIZE THEN 0
  ELSE IF lo = hi THEN lo
  ELSE LET mid == (lo + hi) \div 2
       IN IF Len(JoinRange(chunks, a, mid)) >= CHUNK_SIZE
          THEN FirstFull(chunks, a, lo, mid)
          ELSE FirstFull(chunks, a, mid + 1, hi)

\* TextIOWrapper.write collects the strings it is given, from chunks[a] on,
\* and passes them on to the BufferedWriter together: before a string with
\* which they would exceed CHUNK_SIZE, or with the string with which they
\* reach it (a single string of that length or more is passed on alone); the
\* strings left at the end are passed on when f is closed. BatchEnd is the
\* index of the last string of the first text passed on.
BatchEnd(chunks, a) ==
  The({ IF j = 0 THEN Len(chunks)
        ELSE IF j > a /\ Len(JoinRange(chunks, a, j)) > CHUNK_SIZE THEN j - 1
        ELSE j
        : j \in { FirstFull(chunks, a, a, Len(chunks)) } })

\* The texts passed on to the BufferedWriter, in order.
RECURSIVE Batches(_, _)
Batches(chunks, a) ==
  IF a > Len(chunks) THEN <<>>
  ELSE The({ << JoinRange(chunks, a, e) >> \o Batches(chunks, e + 1)
             : e \in { BatchEnd(chunks, a) } })

\* The BufferedWriter behind f: its buffer and the writes to the file made
\* so far.
NewWriter == [buf |-> "", writes |-> <<>>]

\* BufferedWriter.write(b): b goes to the buffer when it fits; else the
\* buffer is written to the file, and b after it when it is longer than the
\* buffer.
BufferedWrite(w, b) ==
  IF Len(b) <= BUFFER_SIZE - Len(w.buf) THEN [w EXCEPT !.buf = @ \o b]
  ELSE LET flushed == IF w.buf = "" THEN w.writes ELSE Append(w.writes, w.buf)
       IN IF Len(b) > BUFFER_SIZE
          THEN [buf |-> "", writes |-> Append(flushed, b)]
          ELSE [buf |-> b, writes |-> flushed]

RECURSIVE WriteBatches(_, _, _)
WriteBatches(w, batches, i) ==
  IF i > Len(batches) THEN w
  ELSE WriteBatches(BufferedWrite(w, batches[i]), batches, i + 1)

\* f.close() at the end of the with-block: the buffer is written.
CloseWriter(w) == IF w.buf = "" THEN w.writes ELSE Append(w.writes, w.buf)

\* The writes to the file, in order, of
\*   with open(path, 'w') as f: json.dump(doc, f, ensure_ascii=False, indent=2)
\* A document of up to BUFFER_SIZE characters is written at once, at the close.
RawWrites(doc) ==
  CloseWriter(WriteBatches(NewWriter, Batches(Chunks(doc, 0), 1), 1))

\* f of a process that has no file open: its position in the file, the
\* writes still to make, and, of a file read, the size of the buffer of
\* readall and the characters read.
Closed == [pos |-> 0, todo |-> <<>>, bufsize |-> 0, result |-> ""]

\* f.read() of json.load is FileIO.readall (fileio.c): it takes the size of
\* the file from fstat, asks for one character more, and reads until a read
\* returns nothing; every read is a system call of its own and returns what
\* the file holds at that moment.
SMALLCHUNK == 8192

new_buffersize(currentsize) ==
  The({ currentsize + (IF addend < SMALLCHUNK THEN SMALLCHUNK ELSE addend)
        : addend \in { IF currentsize > 65536 THEN currentsize \div 8
                       ELSE 256 + currentsize } })

\* f after open(path, 'r') and the fstat of readall.
OpenRead(file) ==
  The({ [Closed EXCEPT !.bufsize = IF end > 0 THEN end + 1 ELSE SMALLCHUNK]
        : end \in { FileSize(file) } })

\* The size of the buffer at the next read: it grows when it is full.
BufSize(f) == IF f.pos >= f.bufsize THEN new_buffersize(f.pos) ELSE f.bufsize

\* read(fd, buf + bytes_read, bufsize - bytes_read): the characters of the
\* file from the position of f on, as many as the buffer has room for.
Read(file, f) ==
  The({ SubSeq(text, f.pos + 1, IF n < Len(text) THEN n ELSE Len(text))
        : n \in { BufSize(f) }, text \in { TextOf(file) } })

\* ------------------------------------------------------------ constants

XCSTRINGS_PATH == "../nolon/Localizable.xcstrings"
OUTPUT_PATH == "missing_translations.json"
TRANSLATIONS_PATH == "translated_items.json"
ZH_HANS == "zh-Hans"
TRANSLATED == "translated"

\* ------------------------------------------------------------- extractor

\* ExtractEntry without the test of state: any zh-Hans record counts as
\* translated.
ExtractEntryIgnoresState(key, value) ==
  IF ~IsDict(value) \/ ~IsDict(DictGet(value, "localizations", EmptyObj))
  THEN [fault |-> TRUE, is_missing |-> FALSE, item |-> JNull]
  ELSE IF Truthy(DictGet(DictGet(value, "localizations", EmptyObj), ZH_HANS, JNull))
  THEN [fault |-> FALSE, is_missing |-> FALSE, item |-> JNull]
  ELSE [fault |-> FALSE, is_missing |-> TRUE,
        item |-> JObj([source |-> JStr(key),
                       comment |-> DictGet(value, "comment", JStr(""))])]

\* ExtractEntry that also asks for a non-empty value: state == "translated"
\* and value.
ExtractEntryNeedsValue(key, value) ==
  IF ~IsDict(value) \/ ~IsDict(DictGet(value, "localizations", EmptyObj))
  THEN [fault |-> TRUE, is_missing |-> FALSE, item |-> JNull]
  ELSE
    LET zh_hans == DictGet(DictGet(value, "localizations", EmptyObj), ZH_HANS, JNull)
        string_unit == DictGet(zh_hans, "stringUnit", EmptyObj)
        missing == [fault |-> FALSE, is_missing |-> TRUE,
                    item |-> JObj([source |-> JStr(key),
                                   comment |-> DictGet(value, "comment", JStr(""))])]
    IN IF ~Truthy(zh_hans) THEN missing
       ELSE IF ~IsDict(zh_hans) \/ ~IsDict(string_unit)
       THEN [fault |-> TRUE, is_missing |-> FALSE, item |-> JNull]
       ELSE IF DictGet(string_unit, "state", JNull) = JStr(TRANSLATED)
               /\ Truthy(DictGet(string_unit, "value", JNull))
       THEN [fault |-> FALSE, is_missing |-> FALSE, item |-> JNull]
       ELSE missing

\* One iteration of the extractor's loop over strings.items(): the
\* is_missing decision for one entry and the report item it records.
\* fault is TRUE when the iteration raises (a .get on a value that is no dict).
ExtractEntry(key, value) ==
  IF ~IsDict(value) THEN [fault |-> TRUE, is_missing |-> FALSE, item |-> JNull]
  ELSE
    LET localizations == DictGet(value, "localizations", EmptyObj)
        item == JObj([source |-> JStr(key),
                      comment |-> DictGet(value, "comment", JStr(""))])
    IN IF ~IsDict(localizations)
       THEN [fault |-> TRUE, is_missing |-> FALSE, item |-> JNull]
       ELSE
         LET zh_hans == DictGet(localizations, ZH_HANS, JNull)
         IN IF ~Truthy(zh_hans)
            THEN [fault |-> FALSE, is_missing |-> TRUE, item |-> item]
            ELSE IF ~IsDict(zh_hans)
            THEN [fault |-> TRUE, is_missing |-> FALSE, item |-> JNull]
            ELSE
              LET string_unit == DictGet(zh_hans, "stringUnit", EmptyObj)
              IN IF ~IsDict(string_unit)
                 THEN [fault |-> TRUE, is_missing |-> FALSE, item |-> JNull]
                 ELSE
                   LET state == DictGet(string_unit, "state", JNull)
                   IN IF state = JStr(TRANSLATED)
                      THEN [fault |-> FALSE, is_missing |-> FALSE, item |-> JNull]
                      ELSE [fault |-> FALSE, is_missing |-> TRUE, item |-> item]

\* The extractor's whole loop on a loaded document: the missing_items
\* mapping, or a fault when data or strings is no dict or an iteration raises.
ExtractAll(doc) ==
  IF ~IsDict(doc) THEN [fault |-> TRUE, missing_items |-> EmptyObj]
  ELSE
    LET strings == DictGet(doc, "strings", EmptyObj)
    IN IF ~IsDict(strings) THEN [fault |-> TRUE, missing_items |-> EmptyObj]
       ELSE IF \E k \in DOMAIN strings.f : ExtractEntry(k, strings.f[k]).fault
       THEN [fault |-> TRUE, missing_items |-> EmptyObj]
       ELSE [fault |-> FALSE,
             missing_items |->
               JObj([k \in {x \in DOMAIN strings.f :
                              ExtractEntry(x, strings.f[x]).is_missing}
                       |-> ExtractEntry(k, strings.f[k]).item])]

\* -------------------------------------------------------------- importer

\* TranslatedRecord with another state tag.
TranslatedRecordNeedsReview(translation) ==
  JObj([stringUnit |-> JObj([state |-> JStr("needs_review"),
                             value |-> JStr(translation)])])

\* The localization record the importer writes for a translation.
TranslatedRecord(translation) ==
  JObj([stringUnit |-> JObj([state |-> JStr(TRANSLATED),
                             value |-> JStr(translation)])])

\* The iteration of the importer's loop with three deviations to choose
\* from: an unknown key gets an entry (upsert), the other locales are dropped
\* (~keepLocales), a key is counted only when its record changes
\* (countChangesOnly).
ImportPairVariant(doc, key, translation, upsert, keepLocales, countChangesOnly) ==
  LET strings == DictGet(doc, "strings", EmptyObj)
      bad == [fault |-> TRUE, doc |-> doc, counted |-> FALSE, warned |-> FALSE]
      known == KeyIn(key, strings)
      entry == DictGet(strings, key, EmptyObj)
      localizations == DictGet(entry, "localizations", EmptyObj)
      record == JObj([stringUnit |-> JObj([state |-> JStr(TRANSLATED),
                                           value |-> JStr(translation)])])
  IN IF known.raises THEN bad
     ELSE IF ~known.holds /\ ~(upsert /\ IsDict(strings))
     THEN [fault |-> FALSE, doc |-> doc, counted |-> FALSE, warned |-> TRUE]
     ELSE IF ~IsDict(strings) THEN bad
     ELSE IF ~IsDict(entry) \/ ~IsDict(localizations) THEN bad
     ELSE [fault |-> FALSE,
           doc |-> DictSet(doc, "strings",
                     DictSet(strings, key,
                       DictSet(entry, "localizations",
                         DictSet(IF keepLocales THEN localizations ELSE EmptyObj,
                                 ZH_HANS, record)))),
           counted |-> IF countChangesOnly
                       THEN DictGet(localizations, ZH_HANS, JNull) # record
                       ELSE TRUE,
           warned |-> FALSE]

\* ImportPair that creates an entry for a key the catalog does not have.
ImportPairUpsert(doc, key, translation) ==
  ImportPairVariant(doc, key, translation, TRUE, TRUE, FALSE)

\* ImportPair that assigns localizations = {"zh-Hans": ...} instead of
\* setting the one locale.
ImportPairReplacesLocalizations(doc, key, translation) ==
  ImportPairVariant(doc, key, translation, FALSE, FALSE, FALSE)

\* ImportPair that counts a key only when its record changes.
ImportPairCountsChanges(doc, key, translation) ==
  ImportPairVariant(doc, key, translation, FALSE, TRUE, TRUE)

\* One iteration of the importer's loop over translations.items() on the
\* in-memory document: the document after it, whether the key was counted,
\* whether a warning was printed, or a fault: a TypeError of `key in strings`
\* (strings is None), of strings[key] (strings is a str that holds the key),
\* of the `in` test on the entry (None) or of an item assignment or a
\* subscript on an entry or a localizations that is no dict.
ImportPair(doc, key, translation) ==
  LET strings == DictGet(doc, "strings", EmptyObj)
      bad == [fault |-> TRUE, doc |-> doc, counted |-> FALSE, warned |-> FALSE]
  IN IF KeyIn(key, strings).raises THEN bad
     ELSE IF ~KeyIn(key, strings).holds
     THEN [fault |-> FALSE, doc |-> doc, counted |-> FALSE, warned |-> TRUE]
     ELSE IF ~IsDict(strings) THEN bad
     ELSE
       LET entry == strings.f[key]
       IN IF ~IsDict(entry) THEN bad
          ELSE
            LET localizations == DictGet(entry, "localizations", EmptyObj)
            IN IF ~IsDict(localizations) THEN bad
               ELSE
                 LET entry2 == DictSet(entry, "localizations",
                                 DictSet(localizations, ZH_HANS,
                                         TranslatedRecord(translation)))
                 IN [fault |-> FALSE,
                     doc |-> DictSet(doc, "strings", DictSet(strings, key, entry2)),
                     counted |-> TRUE, warned |-> FALSE]

\* ---------------------------------------------------------------- bounds

\* Invocations of the scripts in one behaviour.
MaxRuns == 2
\* Pairs in the translations input.
MaxPairs == 2
\* Characters of the comment of the entry "Pad": with it the text of a
\* document is longer than CHUNK_SIZE.
PadLen == 9000

\* ------------------------------------------------- the inputs considered

CatalogKeys == {"Hello", "Bye"}
TranslationKeys == {"Hello", "Bye", "Ciao"}
Texts == {"", "ni hao"}

\* A localization record as the catalog format describes it.
StringUnitRecord(state, value) ==
  JObj([stringUnit |-> JObj([state |-> JStr(state), value |-> JStr(value)])])

EnRecord == StringUnitRecord(TRANSLATED, "Hello")

\* String entries: without localizations, with other locales only, with a
\* well-formed zh-Hans record, with a partial one (empty, stringUnit without
\* state), and with a null or a value of an unexpected JSON type where an
\* object is expected.
Entries ==
  { EmptyObj,
    JObj([comment |-> JStr("greeting")]),
    JObj([localizations |-> JNull]),
    JObj([localizations |-> EmptyObj]),
    JObj([comment |-> JStr("greeting"), localizations |-> JObj([en |-> EnRecord])]),
    JObj([localizations |-> JObj(ZH_HANS :> JNull)]),
    JObj([localizations |-> JObj(ZH_HANS :> EmptyObj)]),
    JObj([localizations |-> JObj(ZH_HANS :> JStr("text"))]),
    JObj([localizations |-> JObj(ZH_HANS :> JObj([stringUnit |-> JNull]))]),
    JObj([localizations |->
            JObj(ZH_HANS :> JObj([stringUnit |-> JObj([value |-> JStr("old")])]))]),
    JObj([localizations |->
            JObj((ZH_HANS :> StringUnitRecord(TRANSLATED, "old")) @@ [en |-> EnRecord])]),
    JObj([comment |-> JStr("greeting"),
          localizations |-> JObj(ZH_HANS :> StringUnitRecord("needs_review", "old"))]) }

\* The entries a second key of the catalog ranges over.
SecondEntries ==
  { EmptyObj,
    JObj([localizations |-> JNull]),
    JObj([comment |-> JStr("greeting"),
          localizations |->
            JObj((ZH_HANS :> StringUnitRecord("needs_review", "old")) @@ [en |-> EnRecord])]) }

CatalogOf(e) ==
  JObj([sourceLanguage |-> JStr("en"), strings |-> JObj(e), version |-> JStr("1.0")])

\* A catalog whose text json.dump writes to the file in several writes: two
\* translated entries and a long one between them.
LongCatalog ==
  CatalogOf(("Hello" :> JObj([localizations |->
                                JObj(ZH_HANS :> StringUnitRecord(TRANSLATED, "NI HAO"))]))
            @@ ("Pad" :> JObj([comment |-> JStr(Repeat("x", PadLen))]))
            @@ ("Bye" :> JObj([localizations |->
                                 JObj(ZH_HANS :> StringUnitRecord(TRANSLATED, "NI HAO"))])))

\* Catalog documents: a strings mapping of none, one or two entries beside
\* other top-level fields, a document with no strings mapping, one whose
\* "strings" is a string, and the long one.
Catalogs ==
  { CatalogOf(<<>>), JObj([sourceLanguage |-> JStr("en")]),
    JObj([sourceLanguage |-> JStr("en"), strings |-> JStr("Hello")]),
    LongCatalog }
  \cup { CatalogOf("Hello" :> e) : e \in Entries }
  \cup { CatalogOf(("Hello" :> e) @@ ("Bye" :> b)) : e \in Entries, b \in SecondEntries }

\* Translations inputs: the pairs of a JSON object in document order (its
\* keys are distinct), each <<key, translated text>>.
PairSeqs(keys, n) ==
  { s \in [1..n -> keys \X Texts] :
      \A a, b \in 1..n : a # b => s[a][1] # s[b][1] }
InputsOver(keys) ==
  { [t |-> "pairs", items |-> s] : s \in UNION { PairSeqs(keys, n) : n \in 0..MaxPairs } }
TranslationInputs == InputsOver(TranslationKeys)

\* A report left by an earlier extractor run.
StaleReport ==
  JObj([Old |-> JObj([source |-> JStr("Old"), comment |-> JStr("")])])

\* ----------------------------------------------------------------- state

Extractors == {"ext"}
Importers == {"imp1", "imp2"}
Procs == Extractors \cup Importers

VARIABLES
  catalogFile,     \* content of XCSTRINGS_PATH, or ABSENT
  transFile,       \* content of TRANSLATIONS_PATH, or ABSENT
  reportFile,      \* content of OUTPUT_PATH, or ABSENT
  pc,              \* per process: idle, start, load, read, trans, scan, write,
                   \* merge, dump, done, fault
  data,            \* per process: the loaded catalog document (mutated by the importer)
  translations,    \* per importer: the loaded translations
  idx,             \* per importer: position of the loop over translations.items()
  updated_count,   \* per importer
  missing_items,   \* per extractor
  fobj,            \* per process: the file object f of the with-block: its
                   \* position in the file, the writes still to make, the
                   \* characters read
  out,             \* per process: the lines printed by the current run
  loaded,          \* history: the catalog document as the run loaded it
  atStart,         \* history: the files when the run started
  stale,           \* history: another run saved the catalog after this run
                   \* loaded it and before this run opened it for writing
  hist,            \* history: the finished runs, in order
  runs             \* number of runs started

vars == <<catalogFile, transFile, reportFile, pc, data, translations, idx,
          updated_count, missing_items, fobj, out, loaded, atStart, stale,
          hist, runs>>

files == <<catalogFile, transFile, reportFile>>

\* Console lines.
ErrorNotFound(path) == [kind |-> "error_not_found", text |-> path, n |-> 0]
FoundMissing(n) == [kind |-> "found_missing", text |-> "", n |-> n]
ExportedTo(path) == [kind |-> "exported_to", text |-> path, n |-> 0]
WarningKey(key) == [kind |-> "warning_key_not_found", text |-> key, n |-> 0]
SuccessfullyUpdated(n, path) == [kind |-> "successfully_updated", text |-> path, n |-> n]

NoPairs == [t |-> "pairs", items |-> <<>>]
NoFiles == [catalog |-> ABSENT, trans |-> ABSENT, report |-> ABSENT]

Idle(p) == pc[p] \in {"idle", "done", "fault"}

\* A finished run, as recorded in hist.
Finished(p, outcome, catalogAfter, reportAfter, count, printed) ==
  [proc |-> p, outcome |-> outcome, before |-> atStart[p],
   loaded |-> IF outcome = "early" THEN ABSENT ELSE loaded[p],
   translations |-> IF outcome = "early" THEN NoPairs ELSE translations[p],
   catalog |-> catalogAfter, report |-> reportAfter,
   count |-> count, out |-> printed]

InitLocals ==
  /\ pc = [p \in Procs |-> "idle"]
  /\ data = [p \in Procs |-> JNull]
  /\ translations = [p \in Procs |-> NoPairs]
  /\ idx = [p \in Procs |-> 1]
  /\ updated_count = [p \in Procs |-> 0]
  /\ missing_items = [p \in Procs |-> EmptyObj]
  /\ fobj = [p \in Procs |-> Closed]
  /\ out = [p \in Procs |-> <<>>]
  /\ loaded = [p \in Procs |-> JNull]
  /\ atStart = [p \in Procs |-> NoFiles]
  /\ stale = [p \in Procs |-> FALSE]
  /\ hist = <<>>
  /\ runs = 0

Init ==
  /\ catalogFile \in Catalogs \cup {ABSENT}
  /\ transFile \in TranslationInputs \cup {ABSENT}
  /\ reportFile \in {ABSENT, StaleReport}
  /\ InitLocals

\* python3 <script>: main() is entered (lines 46-47 and 49-50). The
\* scripts are run one after the other.
Start(p) ==
  /\ runs < MaxRuns
  /\ \A q \in Procs : Idle(q)
  /\ pc' = [pc EXCEPT ![p] = "start"]
  /\ data' = [data EXCEPT ![p] = JNull]
  /\ translations' = [translations EXCEPT ![p] = NoPairs]
  /\ idx' = [idx EXCEPT ![p] = 1]
  /\ updated_count' = [updated_count EXCEPT ![p] = 0]
  /\ missing_items' = [missing_items EXCEPT ![p] = EmptyObj]
  /\ fobj' = [fobj EXCEPT ![p] = Closed]
  /\ out' = [out EXCEPT ![p] = <<>>]
  /\ loaded' = [loaded EXCEPT ![p] = JNull]
  /\ atStart' = [atStart EXCEPT ![p] =
                   [catalog |-> catalogFile, trans |-> transFile, report |-> reportFile]]
  /\ stale' = [stale EXCEPT ![p] = FALSE]
  /\ runs' = runs + 1
  /\ UNCHANGED <<files, hist>>

\* ------------------------------------------------------ extractor steps

\* ExtCheck without the existence test: the run goes on to open the file.
ExtCheckNoExistenceTest(p) ==
  /\ pc[p] = "start"
  /\ pc' = [pc EXCEPT ![p] = "load"]
  /\ UNCHANGED <<files, data, translations, idx, updated_count, missing_items, fobj,
                 out, loaded, atStart, stale, hist, runs>>

\* extract_missing_translations.py lines 9-11: the existence check.
ExtCheck(p) ==
  /\ pc[p] = "start"
  /\ IF catalogFile = ABSENT
     THEN /\ out' = [out EXCEPT ![p] = Append(@, ErrorNotFound(XCSTRINGS_PATH))]
          /\ pc' = [pc EXCEPT ![p] = "done"]
          /\ hist' = Append(hist, Finished(p, "early", catalogFile, reportFile, 0,
                                           out'[p]))
     ELSE /\ pc' = [pc EXCEPT ![p] = "load"]
          /\ UNCHANGED <<out, hist>>
  /\ UNCHANGED <<files, data, translations, idx, updated_count, missing_items, fobj,
                 loaded, atStart, stale, runs>>

\* lines 13-14: open and json.load; open raises when the file is not there,
\* json.load when its content is no JSON document.
\* No process runs beside the extractor, so the reads of its load are one
\* step.
ExtLoad(p) ==
  /\ pc[p] = "load"
  /\ \E r \in {Load(catalogFile)} :
        IF ~r.ok
        THEN /\ pc' = [pc EXCEPT ![p] = "fault"]
             /\ hist' = Append(hist, Finished(p, "fault", catalogFile, reportFile,
                                              0, out[p]))
             /\ UNCHANGED <<data, loaded>>
        ELSE /\ data' = [data EXCEPT ![p] = r.doc]
             /\ loaded' = [loaded EXCEPT ![p] = r.doc]
             /\ pc' = [pc EXCEPT ![p] = "scan"]
             /\ UNCHANGED hist
  /\ UNCHANGED <<files, translations, idx, updated_count, missing_items, fobj,
                 out, atStart, stale, runs>>

\* lines 16-37: the loop that fills missing_items.
ExtScan(p) ==
  /\ pc[p] = "scan"
  /\ LET r == ExtractAll(data[p])
     IN IF r.fault
        THEN /\ pc' = [pc EXCEPT ![p] = "fault"]
             /\ hist' = Append(hist, Finished(p, "fault", catalogFile, reportFile, 0, out[p]))
             /\ UNCHANGED missing_items
        ELSE /\ missing_items' = [missing_items EXCEPT ![p] = r.missing_items]
             /\ pc' = [pc EXCEPT ![p] = "write"]
             /\ UNCHANGED hist
  /\ UNCHANGED <<files, data, translations, idx, updated_count, fobj, out,
                 loaded, atStart, stale, runs>>

\* lines 39-41: print the count; open(OUTPUT_PATH, 'w') creates the report
\* file or truncates it.
ExtOpen(p) ==
  /\ pc[p] = "write"
  /\ reportFile' = EmptyFile
  /\ fobj' = [fobj EXCEPT ![p] = [Closed EXCEPT !.todo = RawWrites(missing_items[p])]]
  /\ out' = [out EXCEPT ![p] =
               Append(@, FoundMissing(Cardinality(DOMAIN missing_items[p].f)))]
  /\ pc' = [pc EXCEPT ![p] = "dump"]
  /\ UNCHANGED <<catalogFile, transFile, data, translations, idx, updated_count,
                 missing_items, loaded, atStart, stale, hist, runs>>

\* line 42 and the end of the with-block: a write of f to the report file
\* that is not its last.
ExtFlush(p) ==
  /\ pc[p] = "dump"
  /\ Len(fobj[p].todo) > 1
  /\ reportFile' = WriteAt(reportFile, fobj[p].pos, Head(fobj[p].todo),
                           missing_items[p])
  /\ fobj' = [fobj EXCEPT ![p].pos = @ + Len(Head(fobj[p].todo)),
                          ![p].todo = Tail(@)]
  /\ UNCHANGED <<catalogFile, transFile, pc, data, translations, idx,
                 updated_count, missing_items, out, loaded, atStart, stale,
                 hist, runs>>

\* lines 42-44: the last write of f to the report file, when the with-block
\* closes it; print the path.
ExtWrite(p) ==
  /\ pc[p] = "dump"
  /\ Len(fobj[p].todo) = 1
  /\ reportFile' = WriteAt(reportFile, fobj[p].pos, Head(fobj[p].todo),
                           missing_items[p])
  /\ fobj' = [fobj EXCEPT ![p] = Closed]
  /\ out' = [out EXCEPT ![p] = Append(@, ExportedTo(OUTPUT_PATH))]
  /\ pc' = [pc EXCEPT ![p] = "done"]
  /\ hist' = Append(hist, Finished(p, "ok", catalogFile, reportFile',
                                   Cardinality(DOMAIN missing_items[p].f), out'[p]))
  /\ UNCHANGED <<catalogFile, transFile, data, translations, idx, updated_count,
                 missing_items, loaded, atStart, stale, runs>>

Extractor(p) ==
  \/ ExtCheck(p) \/ ExtLoad(p) \/ ExtScan(p)
  \/ ExtOpen(p) \/ ExtFlush(p) \/ ExtWrite(p)

\* ------------------------------------------------------- importer steps

\* import_translations.py lines 9-15: the two existence checks.
ImpCheck(p) ==
  /\ pc[p] = "start"
  /\ IF catalogFile = ABSENT
     THEN /\ out' = [out EXCEPT ![p] = Append(@, ErrorNotFound(XCSTRINGS_PATH))]
          /\ pc' = [pc EXCEPT ![p] = "done"]
          /\ hist' = Append(hist, Finished(p, "early", catalogFile, reportFile, 0,
                                           out'[p]))
     ELSE IF transFile = ABSENT
     THEN /\ out' = [out EXCEPT ![p] = Append(@, ErrorNotFound(TRANSLATIONS_PATH))]
          /\ pc' = [pc EXCEPT ![p] = "done"]
          /\ hist' = Append(hist, Finished(p, "early", catalogFile, reportFile, 0,
                                           out'[p]))
     ELSE /\ pc' = [pc EXCEPT ![p] = "load"]
          /\ UNCHANGED <<out, hist>>
  /\ UNCHANGED <<files, data, translations, idx, updated_count, missing_items, fobj,
                 loaded, atStart, stale, runs>>

\* lines 18-19: open(XCSTRINGS_PATH, 'r') and the start of f.read() in
\* json.load, which takes the size of the file.
ImpOpenRead(p) ==
  /\ pc[p] = "load"
  /\ fobj' = [fobj EXCEPT ![p] = OpenRead(catalogFile)]
  /\ pc' = [pc EXCEPT ![p] = "read"]
  /\ UNCHANGED <<files, data, translations, idx, updated_count, missing_items,
                 out, loaded, atStart, stale, hist, runs>>

\* line 19: one read of f.read(). A read that returns characters is followed
\* by another; after the read that returns none json.load decodes what was
\* read, and raises when that is no JSON document (a catalog file another
\* run has opened for writing and not yet written is empty; one it wrote
\* between two reads gives its end after the text read before).
ImpRead(p) ==
  /\ pc[p] = "read"
  /\ \E chunk \in { Read(catalogFile, fobj[p]) } :
       IF chunk # ""
       THEN /\ fobj' = [fobj EXCEPT ![p].bufsize = BufSize(fobj[p]),
                                    ![p].result = @ \o chunk,
                                    ![p].pos = @ + Len(chunk)]
            /\ UNCHANGED <<pc, data, loaded, hist>>
       ELSE /\ fobj' = [fobj EXCEPT ![p] = Closed]
            /\ \E r \in { Parse(fobj[p].result) } :
                 IF ~r.ok
                 THEN /\ pc' = [pc EXCEPT ![p] = "fault"]
                      /\ hist' = Append(hist, Finished(p, "fault", catalogFile,
                                                       reportFile, 0, out[p]))
                      /\ UNCHANGED <<data, loaded>>
                 ELSE /\ data' = [data EXCEPT ![p] = r.doc]
                      /\ loaded' = [loaded EXCEPT ![p] = r.doc]
                      /\ pc' = [pc EXCEPT ![p] = "trans"]
                      /\ UNCHANGED hist
  /\ UNCHANGED <<files, translations, idx, updated_count, missing_items, out,
                 atStart, stale, runs>>

\* lines 22-26: load the translations; strings = data.get("strings", {}),
\* updated_count = 0. open raises when the file is not there, data.get when
\* data is no dict. The translations file is replaced as a whole, never
\* written in place, so its load is one step.
ImpLoadTranslations(p) ==
  /\ pc[p] = "trans"
  /\ IF transFile = ABSENT \/ ~IsDict(data[p])
     THEN /\ pc' = [pc EXCEPT ![p] = "fault"]
          /\ hist' = Append(hist, Finished(p, "fault", catalogFile, reportFile,
                                           0, out[p]))
          /\ UNCHANGED <<translations, idx, updated_count>>
     ELSE /\ translations' = [translations EXCEPT ![p] = transFile]
          /\ idx' = [idx EXCEPT ![p] = 1]
          /\ updated_count' = [updated_count EXCEPT ![p] = 0]
          /\ pc' = [pc EXCEPT ![p] = "merge"]
          /\ UNCHANGED hist
  /\ UNCHANGED <<files, data, missing_items, fobj, out, loaded, atStart, stale,
                 runs>>

\* ImpMerge that saves the document after every pair it merges.
ImpMergeWritesThrough(p) ==
  /\ pc[p] = "merge"
  /\ idx[p] <= Len(translations[p].items)
  /\ LET key == translations[p].items[idx[p]][1]
         translation == translations[p].items[idx[p]][2]
         r == ImportPair(data[p], key, translation)
     IN IF r.fault
        THEN /\ pc' = [pc EXCEPT ![p] = "fault"]
             /\ hist' = Append(hist, Finished(p, "fault", catalogFile, reportFile,
                                              updated_count[p], out[p]))
             /\ UNCHANGED <<data, idx, updated_count, out, catalogFile>>
        ELSE /\ data' = [data EXCEPT ![p] = r.doc]
             /\ catalogFile' = r.doc
             /\ updated_count' = [updated_count EXCEPT ![p] =
                                    IF r.counted THEN @ + 1 ELSE @]
             /\ out' = [out EXCEPT ![p] =
                          IF r.warned THEN Append(@, WarningKey(key)) ELSE @]
             /\ idx' = [idx EXCEPT ![p] = @ + 1]
             /\ UNCHANGED <<pc, hist>>
  /\ UNCHANGED <<transFile, reportFile, translations, missing_items, fobj, loaded,
                 atStart, stale, runs>>

\* lines 28-41: one iteration of the loop over translations.items().
ImpMerge(p) ==
  /\ pc[p] = "merge"
  /\ idx[p] <= Len(translations[p].items)
  /\ LET key == translations[p].items[idx[p]][1]
         translation == translations[p].items[idx[p]][2]
         r == ImportPair(data[p], key, translation)
     IN IF r.fault
        THEN /\ pc' = [pc EXCEPT ![p] = "fault"]
             /\ hist' = Append(hist, Finished(p, "fault", catalogFile, reportFile,
                                              updated_count[p], out[p]))
             /\ UNCHANGED <<data, idx, updated_count, out>>
        ELSE /\ data' = [data EXCEPT ![p] = r.doc]
             /\ updated_count' = [updated_count EXCEPT ![p] =
                                    IF r.counted THEN @ + 1 ELSE @]
             /\ out' = [out EXCEPT ![p] =
                          IF r.warned THEN Append(@, WarningKey(key)) ELSE @]
             /\ idx' = [idx EXCEPT ![p] = @ + 1]
             /\ UNCHANGED <<pc, hist>>
  /\ UNCHANGED <<files, translations, missing_items, fobj, loaded, atStart, stale,
                 runs>>

\* ImpOpen with mode 'r+': the file is opened for writing and keeps its
\* content.
ImpOpenKeepsContent(p) ==
  /\ pc[p] = "merge"
  /\ idx[p] > Len(translations[p].items)
  /\ fobj' = [fobj EXCEPT ![p] = [Closed EXCEPT !.todo = RawWrites(data[p])]]
  /\ pc' = [pc EXCEPT ![p] = "dump"]
  /\ UNCHANGED <<files, data, translations, idx, updated_count, missing_items,
                 out, loaded, atStart, stale, hist, runs>>

\* line 44, after the loop: open(XCSTRINGS_PATH, 'w') truncates the catalog
\* file.
ImpOpen(p) ==
  /\ pc[p] = "merge"
  /\ idx[p] > Len(translations[p].items)
  /\ catalogFile' = EmptyFile
  /\ fobj' = [fobj EXCEPT ![p] = [Closed EXCEPT !.todo = RawWrites(data[p])]]
  /\ pc' = [pc EXCEPT ![p] = "dump"]
  /\ UNCHANGED <<transFile, reportFile, data, translations, idx, updated_count,
                 missing_items, out, loaded, atStart, stale, hist, runs>>

\* line 45 and the end of the with-block: a write of f to the catalog file
\* that is not its last. json.dump makes one whenever the text collected
\* exceeds CHUNK_SIZE; each write is a step of its own, at the position f
\* has reached.
ImpFlush(p) ==
  /\ pc[p] = "dump"
  /\ Len(fobj[p].todo) > 1
  /\ catalogFile' = WriteAt(catalogFile, fobj[p].pos, Head(fobj[p].todo), data[p])
  /\ fobj' = [fobj EXCEPT ![p].pos = @ + Len(Head(fobj[p].todo)),
                          ![p].todo = Tail(@)]
  /\ UNCHANGED <<transFile, reportFile, pc, data, translations, idx,
                 updated_count, missing_items, out, loaded, atStart, stale,
                 hist, runs>>

\* lines 45-47: the last write of f to the catalog file, when the with-block
\* closes it; print the count.
ImpSave(p) ==
  /\ pc[p] = "dump"
  /\ Len(fobj[p].todo) = 1
  /\ catalogFile' = WriteAt(catalogFile, fobj[p].pos, Head(fobj[p].todo), data[p])
  /\ fobj' = [fobj EXCEPT ![p] = Closed]
  /\ out' = [out EXCEPT ![p] =
               Append(@, SuccessfullyUpdated(updated_count[p], XCSTRINGS_PATH))]
  /\ pc' = [pc EXCEPT ![p] = "done"]
  /\ stale' = [q \in Procs |->
                 stale[q] \/ (q # p /\ q \in Importers
                                  /\ pc[q] \in {"trans", "merge"})]
  /\ hist' = Append(hist, Finished(p, "ok", catalogFile', reportFile,
                                   updated_count[p], out'[p]))
  /\ UNCHANGED <<transFile, reportFile, data, translations, idx, updated_count,
                 missing_items, loaded, atStart, runs>>

Importer(p) ==
  \/ ImpCheck(p) \/ ImpOpenRead(p) \/ ImpRead(p) \/ ImpLoadTranslations(p)
  \/ ImpMerge(p)
  \/ ImpOpen(p) \/ ImpFlush(p) \/ ImpSave(p)

\* ------------------------------------------------------- specifications

\* Runs of the extractor and of the importer, one after the other.
Next ==
  \/ \E p \in {"ext", "imp1"} : Start(p)
  \/ Extractor("ext")
  \/ Importer("imp1")

Spec == Init /\ [][Next]_vars

\* Two importers started without waiting for each other.
Spawn(p) ==
  /\ pc[p] = "idle"
  /\ pc' = [pc EXCEPT ![p] = "start"]
  /\ atStart' = [atStart EXCEPT ![p] =
                   [catalog |-> catalogFile, trans |-> transFile, report |-> reportFile]]
  /\ runs' = runs + 1
  /\ UNCHANGED <<files, data, translations, idx, updated_count, missing_items, fobj,
                 out, loaded, stale, hist>>

RaceCatalogs ==
  { CatalogOf(e) :
      e \in [CatalogKeys ->
               { EmptyObj,
                 JObj([comment |-> JStr("greeting"),
                       localizations |->
                         JObj((ZH_HANS :> StringUnitRecord("needs_review", "old"))
                              @@ [en |-> EnRecord])]) }] }
  \cup { LongCatalog }

\* The translations inputs two importers race with on a catalog: for the long
\* catalog, one pair that replaces a translation by one of the same length.
RaceInputs(catalog) ==
  IF catalog = LongCatalog
  THEN { [t |-> "pairs", items |-> << <<k, "ni hao">> >>] : k \in CatalogKeys }
  ELSE InputsOver(CatalogKeys)

\* The external collaborator replaces the translations input that one
\* importer has loaded before the other importer loads it.
EnvTranslate ==
  /\ \E q \in Importers : pc[q] \in {"idle", "start", "load", "read", "trans"}
  /\ \E q \in Importers :
       /\ pc[q] \in {"merge", "dump", "done"}
       /\ translations[q] = transFile
       /\ transFile' \in RaceInputs(loaded[q]) \ {transFile}
  /\ UNCHANGED <<catalogFile, reportFile, pc, data, translations, idx,
                 updated_count, missing_items, fobj, out, loaded, atStart, stale,
                 hist, runs>>

InitRace ==
  /\ catalogFile \in RaceCatalogs
  /\ transFile \in RaceInputs(catalogFile)
  /\ reportFile = ABSENT
  /\ InitLocals

NextRace ==
  \/ \E p \in Importers : Spawn(p)
  \/ \E p \in Importers : Importer(p)
  \/ EnvTranslate

SpecRace == InitRace /\ [][NextRace]_vars

\* --------------------------------------------- vocabulary of the properties

\* The string keys of a catalog document.
KeysOf(doc) ==
  IF IsDict(DictGet(doc, "strings", EmptyObj))
  THEN DOMAIN DictGet(doc, "strings", EmptyObj).f
  ELSE {}
EntryOf(doc, k) == doc.f["strings"].f[k]
\* The keys of a translations input.
PairKeys(tr) == { tr.items[j][1] : j \in DOMAIN tr.items }

\* The entry has a zh-Hans localization record whose stringUnit.state is
\* exactly "translated".
HasTranslatedState(e) ==
  /\ IsDict(e) /\ "localizations" \in DOMAIN e.f
  /\ IsDict(e.f["localizations"]) /\ ZH_HANS \in DOMAIN e.f["localizations"].f
  /\ LET z == e.f["localizations"].f[ZH_HANS]
     IN /\ IsDict(z) /\ "stringUnit" \in DOMAIN z.f
        /\ IsDict(z.f["stringUnit"]) /\ "state" \in DOMAIN z.f["stringUnit"].f
        /\ z.f["stringUnit"].f["state"] = [t |-> "str", s |-> "translated"]

\* The reference mapping of the missing-translations report.
ReferenceReport(doc) ==
  [t |-> "obj",
   f |-> [k \in { x \in KeysOf(doc) : ~HasTranslatedState(EntryOf(doc, x)) } |->
            [t |-> "obj",
             f |-> [source |-> [t |-> "str", s |-> k],
                    comment |-> IF "comment" \in DOMAIN EntryOf(doc, k).f
                                THEN EntryOf(doc, k).f["comment"]
                                ELSE [t |-> "str", s |-> ""]]]]]

\* The document has the shape of the catalog format: every entry is an
\* object, localizations (when present) an object of objects, stringUnit
\* (when present) an object.
ConformsToFormat(doc) ==
  /\ IsDict(doc)
  /\ IsDict(DictGet(doc, "strings", EmptyObj))
  /\ \A k \in KeysOf(doc) :
       LET e == EntryOf(doc, k)
           l == DictGet(e, "localizations", EmptyObj)
       IN /\ IsDict(e) /\ IsDict(l)
          /\ \A c \in DOMAIN l.f :
               /\ IsDict(l.f[c])
               /\ IsDict(DictGet(l.f[c], "stringUnit", EmptyObj))

ExtRuns == { i \in DOMAIN hist : hist[i].proc \in Extractors }
ImpRuns == { i \in DOMAIN hist : hist[i].proc \in Importers }

\* C1: every extractor run on a catalog of the format's shape completes, and
\* the report a completed run writes is the reference mapping of the catalog
\* it loaded: one item {source: K, comment: comment or ""} for exactly the
\* keys K without a zh-Hans record of state "translated"; the printed count
\* is the number of report keys.
C1_ReportIsReference ==
  \A i \in ExtRuns :
    /\ (hist[i].outcome # "early" /\ ConformsToFormat(hist[i].loaded))
          => hist[i].outcome = "ok"
    /\ hist[i].outcome = "ok" =>
         /\ hist[i].report = ReferenceReport(hist[i].loaded)
         /\ hist[i].out = << FoundMissing(Cardinality(DOMAIN hist[i].report.f)),
                             ExportedTo(OUTPUT_PATH) >>

\* A completed extractor run on a two-entry catalog: "Hello" is translated
\* and left out, "Bye" is reported with its comment, the count is 1.
C1_Witness ==
  \E i \in ExtRuns :
    /\ hist[i].outcome = "ok"
    /\ KeysOf(hist[i].loaded) = {"Hello", "Bye"}
    /\ DOMAIN hist[i].report.f = {"Bye"}
    /\ hist[i].report.f["Bye"].f["comment"] = JStr("greeting")
    /\ hist[i].count = 1

\* C2: whatever is found under an entry (localizations, the zh-Hans record,
\* stringUnit or state absent, empty, null or of an unexpected type), the
\* extractor run that loaded a catalog whose strings mapping is an object of
\* objects raises no fault, counts the entry as missing and writes the report.
C2_TotalOverEntryShapes ==
  \A i \in ExtRuns :
    (hist[i].outcome # "early"
       /\ IsDict(DictGet(hist[i].loaded, "strings", EmptyObj))
       /\ \A k \in KeysOf(hist[i].loaded) : IsDict(EntryOf(hist[i].loaded, k))) =>
      /\ hist[i].outcome = "ok"
      /\ hist[i].report = ReferenceReport(hist[i].loaded)

\* The zh-Hans localization record of key k in a catalog document.
ZhOf(doc, k) == EntryOf(doc, k).f["localizations"].f[ZH_HANS]
HasZh(doc, k) ==
  /\ "localizations" \in DOMAIN EntryOf(doc, k).f
  /\ IsDict(EntryOf(doc, k).f["localizations"])
  /\ ZH_HANS \in DOMAIN EntryOf(doc, k).f["localizations"].f

\* The pairs of a translations input whose key is in the catalog document.
KnownPairs(tr, doc) == { j \in DOMAIN tr.items : tr.items[j][1] \in KeysOf(doc) }

\* C3: every importer run on a catalog of the format's shape completes
\* (unknown keys abort nothing), and after a completed run the persisted
\* zh-Hans record of every translated key of the catalog is
\* {stringUnit: {state: "translated", value: text}}; a zh-Hans record the
\* run changed has state "translated".
C3_TranslationsApplied ==
  \A i \in ImpRuns :
    /\ (hist[i].outcome # "early" /\ ConformsToFormat(hist[i].loaded))
          => hist[i].outcome = "ok"
    /\ hist[i].outcome = "ok" =>
         /\ \A j \in KnownPairs(hist[i].translations, hist[i].loaded) :
              LET k == hist[i].translations.items[j][1]
              IN /\ HasZh(hist[i].catalog, k)
                 /\ ZhOf(hist[i].catalog, k) =
                      StringUnitRecord("translated", hist[i].translations.items[j][2])
         /\ \A k \in KeysOf(hist[i].catalog) :
              (HasZh(hist[i].catalog, k)
                 /\ (~HasZh(hist[i].loaded, k)
                       \/ ZhOf(hist[i].catalog, k) # ZhOf(hist[i].loaded, k)))
              => ZhOf(hist[i].catalog, k).f["stringUnit"].f["state"] = JStr("translated")

\* A completed importer run whose input names an unknown key before the key
\* "Hello", which had a zh-Hans record of another state before.
C3_Witness ==
  \E i \in ImpRuns :
    /\ hist[i].outcome = "ok"
    /\ Len(hist[i].translations.items) = 2
    /\ hist[i].translations.items[1][1] = "Ciao"
    /\ hist[i].translations.items[2] = <<"Hello", "ni hao">>
    /\ "Hello" \in KeysOf(hist[i].loaded)
    /\ HasZh(hist[i].loaded, "Hello")
    /\ ZhOf(hist[i].loaded, "Hello") = StringUnitRecord("needs_review", "old")
    /\ ZhOf(hist[i].catalog, "Hello") = StringUnitRecord("translated", "ni hao")

\* The warnings a run on doc prints for the input tr, in order.
ExpectedWarnings(tr, doc) ==
  LET Unknown(pair) == pair[1] \notin KeysOf(doc)
      u == SelectSeq(tr.items, Unknown)
  IN [j \in 1..Len(u) |-> WarningKey(u[j][1])]

\* C4: a completed importer run leaves the key set of the strings mapping as
\* it was, prints one warning per translation key that is not in the catalog,
\* and reports as updated count the number of translation keys that are.
C4_KeySetAndCount ==
  \A i \in ImpRuns :
    hist[i].outcome = "ok" =>
      /\ KeysOf(hist[i].catalog) = KeysOf(hist[i].loaded)
      /\ DOMAIN hist[i].catalog.f = DOMAIN hist[i].loaded.f
      /\ hist[i].count = Cardinality(KnownPairs(hist[i].translations, hist[i].loaded))
      /\ hist[i].out = ExpectedWarnings(hist[i].translations, hist[i].loaded)
                         \o << SuccessfullyUpdated(hist[i].count, XCSTRINGS_PATH) >>

\* A completed importer run with one key of the catalog and one unknown key.
C4_Witness ==
  \E i \in ImpRuns :
    /\ hist[i].outcome = "ok"
    /\ hist[i].count = 1
    /\ PairKeys(hist[i].translations) = {"Hello", "Ciao"}
    /\ KeysOf(hist[i].catalog) = {"Hello", "Bye"}
    /\ WarningKey("Ciao") = hist[i].out[1]

\* f and g agree outside the key x.
SameExcept(f, g, x) ==
  /\ DOMAIN f \ {x} = DOMAIN g \ {x}
  /\ \A y \in DOMAIN f \ {x} : f[y] = g[y]

\* C5: a completed importer run changes nothing but the zh-Hans record of
\* the entries named in its input: the other top-level fields, the entries
\* not named, the other fields of a named entry and its other locales are as
\* loaded; a run that does not complete changes nothing.
C5_Frame ==
  \A i \in ImpRuns :
    /\ hist[i].outcome # "ok" => hist[i].catalog = hist[i].before.catalog
    /\ hist[i].outcome = "ok" =>
         /\ SameExcept(hist[i].catalog.f, hist[i].loaded.f, "strings")
         /\ KeysOf(hist[i].catalog) = KeysOf(hist[i].loaded)
         /\ \A k \in KeysOf(hist[i].loaded) :
              LET old == EntryOf(hist[i].loaded, k)
                  new == EntryOf(hist[i].catalog, k)
              IN IF k \notin PairKeys(hist[i].translations) THEN new = old
                 ELSE /\ SameExcept(new.f, old.f, "localizations")
                      /\ SameExcept(new.f["localizations"].f,
                                    DictGet(old, "localizations", EmptyObj).f, ZH_HANS)

\* A completed importer run that translated "Hello", an entry with a comment
\* and an en record, beside an entry "Bye" with localizations that is not
\* named in the input.
C5_Witness ==
  \E i \in ImpRuns :
    /\ hist[i].outcome = "ok"
    /\ PairKeys(hist[i].translations) = {"Hello"}
    /\ KeysOf(hist[i].loaded) = {"Hello", "Bye"}
    /\ "comment" \in DOMAIN EntryOf(hist[i].loaded, "Hello").f
    /\ "localizations" \in DOMAIN EntryOf(hist[i].loaded, "Hello").f
    /\ "en" \in DOMAIN EntryOf(hist[i].loaded, "Hello").f["localizations"].f
    /\ "localizations" \in DOMAIN EntryOf(hist[i].loaded, "Bye").f
    /\ IsDict(EntryOf(hist[i].loaded, "Bye").f["localizations"])
    /\ hist[i].catalog # hist[i].loaded

\* C6: an extractor run that follows a completed importer run loads the
\* catalog that run persisted, and the report it writes holds none of the
\* keys of the catalog the importer was given a translation for, whatever
\* their zh-Hans record was before and whatever the translated text is.
C6_RoundTrip ==
  \A i \in ImpRuns :
    (hist[i].outcome = "ok" /\ i + 1 \in ExtRuns /\ hist[i + 1].outcome # "early") =>
      /\ hist[i + 1].loaded = hist[i].catalog
      /\ hist[i + 1].outcome = "ok" =>
           \A j \in KnownPairs(hist[i].translations, hist[i].loaded) :
             hist[i].translations.items[j][1] \notin DOMAIN hist[i + 1].report.f

\* An importer run gave "Hello", whose zh-Hans record was not translated, the
\* empty text; the extractor run after it reports "Bye" and not "Hello".
C6_Witness ==
  /\ Len(hist) = 2
  /\ hist[1].proc \in Importers /\ hist[1].outcome = "ok"
  /\ hist[1].translations.items = << <<"Hello", "">> >>
  /\ KeysOf(hist[1].loaded) = {"Hello", "Bye"}
  /\ ~HasTranslatedState(EntryOf(hist[1].loaded, "Hello"))
  /\ hist[2].proc \in Extractors /\ hist[2].outcome = "ok"
  /\ DOMAIN hist[2].report.f = {"Bye"}

\* C7: of two importer runs given the same translations input, the later
\* leaves the catalog the earlier left, with the same outcome and the same
\* updated count.
C7_Idempotent ==
  \A i, j \in ImpRuns :
    (i < j /\ hist[i].before.trans = hist[j].before.trans
       /\ \A m \in ImpRuns : (i < m /\ m < j) =>
            hist[m].before.trans = hist[i].before.trans) =>
      /\ hist[j].catalog = hist[i].catalog
      /\ hist[j].outcome = hist[i].outcome
      /\ hist[j].count = hist[i].count
      /\ hist[j].out = hist[i].out

\* Two completed importer runs with the same input, the first of which
\* changed the catalog and updated an entry.
C7_Witness ==
  /\ Len(hist) = 2
  /\ hist[1].proc \in Importers /\ hist[1].outcome = "ok"
  /\ hist[2].proc \in Importers /\ hist[2].outcome = "ok"
  /\ hist[1].catalog # hist[1].loaded
  /\ hist[2].loaded = hist[1].catalog
  /\ hist[1].count >= 1

\* The path of the first required file that is not there when a run starts.
MissingInput(i) ==
  IF hist[i].before.catalog = ABSENT THEN XCSTRINGS_PATH
  ELSE IF hist[i].proc \in Importers /\ hist[i].before.trans = ABSENT
  THEN TRANSLATIONS_PATH
  ELSE ""

\* C8: a run started without its catalog file (or, for the importer, without
\* the translations file) prints the missing path and stops: it raises no
\* fault, loads nothing, and leaves the report file and the catalog file as
\* they were; a running process in that case is before or after its check.
C8_MissingFile ==
  /\ \A i \in DOMAIN hist :
       MissingInput(i) # "" =>
         /\ hist[i].outcome = "early"
         /\ hist[i].out = << ErrorNotFound(MissingInput(i)) >>
         /\ hist[i].report = hist[i].before.report
         /\ hist[i].catalog = hist[i].before.catalog
  /\ \A p \in Procs :
       (pc[p] # "idle"
          /\ (atStart[p].catalog = ABSENT
                \/ (p \in Importers /\ atStart[p].trans = ABSENT)))
       => /\ pc[p] \in {"start", "done"}
          /\ catalogFile = atStart[p].catalog

\* Without a catalog file, an extractor run left an existing report as it
\* was and an importer run stopped early too.
C8_Witness ==
  /\ Len(hist) = 2
  /\ hist[1].proc \in Extractors /\ hist[1].outcome = "early"
  /\ hist[1].before.report = StaleReport /\ reportFile = StaleReport
  /\ hist[2].proc \in Importers /\ hist[2].outcome = "early"
  /\ hist[2].out = << ErrorNotFound(XCSTRINGS_PATH) >>

Running(p) ==
  pc[p] \in {"start", "load", "read", "trans", "scan", "write", "merge", "dump"}

\* C10: while a run is under way the catalog file is as it was when the run
\* started, until an importer that has processed every pair opens it for
\* writing: it then holds the part of the document written so far. The
\* catalog file after a run differs from the one before it only
\* for an importer run that found both files, processed every pair and
\* completed, and then it is the document that run merged; an extractor run
\* and a run that stops early or faults leave it as it was.
C10_CatalogWrittenOnlyAtSave ==
  /\ \A p \in Procs :
       Running(p) =>
         \/ catalogFile = atStart[p].catalog
         \/ /\ p \in Importers /\ pc[p] = "dump"
            /\ idx[p] > Len(translations[p].items)
            /\ TextOf(catalogFile) = SubSeq(Text(data[p]), 1, fobj[p].pos)
  /\ ((\A p \in Procs : ~Running(p)) /\ hist # <<>>) =>
       catalogFile = hist[Len(hist)].catalog
  /\ \A i \in DOMAIN hist :
       i + 1 \in DOMAIN hist => hist[i + 1].before.catalog = hist[i].catalog
  /\ \A i \in DOMAIN hist :
       /\ hist[i].catalog # hist[i].before.catalog =>
            /\ hist[i].proc \in Importers
            /\ hist[i].outcome = "ok"
            /\ hist[i].before.catalog # ABSENT /\ hist[i].before.trans # ABSENT
            /\ hist[i].before.catalog = hist[i].loaded
            /\ IsDict(hist[i].catalog)
            \* every pair was counted or warned about before the last line
            /\ Len(hist[i].out) =
                 1 + Len(hist[i].translations.items) - hist[i].count
       /\ hist[i].proc \in Extractors => hist[i].catalog = hist[i].before.catalog
       /\ hist[i].outcome # "ok" => hist[i].catalog = hist[i].before.catalog

\* An importer run merged "Hello" in memory, faulted on "Bye" and left the
\* catalog file as it was.
C10_Witness ==
  \E i \in ImpRuns :
    /\ hist[i].outcome = "fault"
    /\ hist[i].count = 1
    /\ hist[i].translations.items[1][1] = "Hello"
    /\ hist[i].translations.items[2][1] = "Bye"
    /\ catalogFile = hist[i].before.catalog

\* The run of p printed its last line.
Completed(p) ==
  /\ pc[p] = "done" /\ out[p] # <<>>
  /\ out[p][Len(out[p])] =
       SuccessfullyUpdated(Cardinality(KnownPairs(translations[p], loaded[p])),
                           XCSTRINGS_PATH)

\* C9: when two importer runs have both completed and the one, p, saved the
\* catalog after the other, q, loaded it and before q opened it for writing,
\* then both had loaded the same catalog, the catalog file is the document q
\* merged (q's translations on the catalog as loaded), and every entry that
\* only p translated is as it was loaded, although p reported it as updated.
\* However the two saves overlap, the file is as long as the text of one of
\* the two documents.
C9_LastWriterWins ==
  \A p, q \in Importers :
    /\ (p # q /\ pc[p] = "done" /\ pc[q] = "done") =>
         FileSize(catalogFile) \in {JsonSize(data[p]), JsonSize(data[q])}
    /\ (p # q /\ pc[p] = "done" /\ pc[q] = "done" /\ stale[q]) =>
      /\ Completed(p) /\ Completed(q)
      /\ loaded[p] = loaded[q]
      /\ catalogFile = data[q]
      /\ \A j \in KnownPairs(translations[q], loaded[q]) :
           ZhOf(catalogFile, translations[q].items[j][1]) =
             StringUnitRecord("translated", translations[q].items[j][2])
      /\ \A j \in KnownPairs(translations[p], loaded[p]) :
           translations[p].items[j][1] \notin PairKeys(translations[q]) =>
             EntryOf(catalogFile, translations[p].items[j][1]) =
               EntryOf(loaded[p], translations[p].items[j][1])
      /\ updated_count[p] = Cardinality(KnownPairs(translations[p], loaded[p]))

\* Both importers loaded the catalog before either saved it; imp1 translated
\* "Hello" and reported 1 update, imp2 translated "Bye" and saved last: the
\* catalog file holds the translation of "Bye" and none of "Hello".
C9_Witness ==
  /\ pc["imp1"] = "done" /\ pc["imp2"] = "done" /\ stale["imp2"]
  /\ translations["imp1"].items = << <<"Hello", "ni hao">> >>
  /\ translations["imp2"].items = << <<"Bye", "ni hao">> >>
  /\ updated_count["imp1"] = 1
  /\ out["imp1"] = << SuccessfullyUpdated(1, XCSTRINGS_PATH) >>
  /\ ZhOf(catalogFile, "Bye") = StringUnitRecord("translated", "ni hao")
  /\ ~HasTranslatedState(EntryOf(catalogFile, "Hello"))
====
